---------------------------- MODULE Spec2Model ----------------------------
(***************************************************************************)
(* Model of the Google Trends dashboard's tolerant CSV ingestion           *)
(* (src/app.py): load_trends_csv and the upload/concatenation block.        *)
(*                                                                         *)
(* Text is modelled at character level.  A field (one cell or one label of *)
(* a delimited line) is a sequence of atoms; an atom is a single character *)
(* ("4", ".", "-", ":", " ", "%", "/") or a maximal run of letters         *)
(* ("Week", "isPartial", "e").  A line is the sequence of its fields, the  *)
(* delimiter (comma, semicolon or tab) being the boundary between fields,  *)
(* so a line holds a delimiter exactly when it has two fields or more.     *)
(* Numbers are pairs <<m, e>> standing for m * 10^(-e), normalised so that *)
(* m carries no trailing zero while e > 0.  A timestamp is <<k>> with      *)
(* k = year*10000 + month*100 + day.  The null value (NaN, NaT) is <<>>.   *)
(***************************************************************************)
EXTENDS Integers, Sequences, FiniteSets, TLC

VARIABLES
    uploaded_files,  \* the streams handed to the program: [data, pos, seekable]
    start_pos,       \* read position of every stream before the first call
    dateparser,      \* how the installed pandas parses date strings
    k,               \* number of load_trends_csv calls made so far
    header_idx,      \* header_idx of the call in progress (or of the last one)
    csv_text,        \* csv_text of the call in progress, as lines
    returned,        \* result of each load_trends_csv call, in call order
    all_dfs,         \* the non-empty tables collected by the upload loop
    df,              \* the combined table (or NoTable)
    exported,        \* the CSV text written by to_csv (or <<>>)
    pc               \* position in the script

vars == <<uploaded_files, start_pos, dateparser, k, header_idx, csv_text, returned, all_dfs, df, exported, pc>>

(***************************************************************************)
(* Bounds of the model.                                                    *)
(***************************************************************************)
MaxTail == 3      \* free lines after the padding, header-location inputs
MaxCols == 3      \* columns of a table with free labels
MaxRows == 2      \* data rows of a table with free cells
MaxTimeRows == 3  \* data rows of a table with free time cells
MaxFiles == 2     \* files uploaded together

(***************************************************************************)
(* Characters and words.                                                   *)
(***************************************************************************)
Digit == {"0", "1", "2", "3", "4", "5", "6", "7", "8", "9"}

DigitVal(c) ==
    CASE c = "0" -> 0 [] c = "1" -> 1 [] c = "2" -> 2 [] c = "3" -> 3
      [] c = "4" -> 4 [] c = "5" -> 5 [] c = "6" -> 6 [] c = "7" -> 7
      [] c = "8" -> 8 [] c = "9" -> 9

DigitChar(d) ==
    CASE d = 0 -> "0" [] d = 1 -> "1" [] d = 2 -> "2" [] d = 3 -> "3"
      [] d = 4 -> "4" [] d = 5 -> "5" [] d = 6 -> "6" [] d = 7 -> "7"
      [] d = 8 -> "8" [] d = 9 -> "9"

\* str.lower() on a run of letters.
Lower(a) ==
    CASE a = "Week" -> "week"
      [] a = "Date" -> "date"
      [] a = "Settimana" -> "settimana"
      [] a = "Time" -> "time"
      [] a = "Updated" -> "updated"
      [] a = "isPartial" -> "ispartial"
      [] a = "ISPARTIAL" -> "ispartial"
      [] a = "IsPartial" -> "ispartial"
      [] a = "AI" -> "ai"
      [] a = "ML" -> "ml"
      [] a = "Italy" -> "italy"
      [] a = "France" -> "france"
      [] a = "Category" -> "category"
      [] a = "All" -> "all"
      [] a = "Country" -> "country"
      [] a = "IT" -> "it"
      [] a = "EU" -> "eu"
      [] a = "Period" -> "period"
      [] a = "False" -> "false"
      [] a = "True" -> "true"
      [] a = "Unnamed" -> "unnamed"
      [] a = "E" -> "e"
      [] OTHER -> a

LowerText(t) == [i \in 1..Len(t) |-> Lower(t[i])]

IsSpace(a) == a = " "

RECURSIVE LStrip(_)
LStrip(t) == IF t # <<>> /\ IsSpace(t[1]) THEN LStrip(Tail(t)) ELSE t

RECURSIVE RStrip(_)
RStrip(t) ==
    IF t # <<>> /\ IsSpace(t[Len(t)]) THEN RStrip(SubSeq(t, 1, Len(t) - 1)) ELSE t

\* str.strip()
Strip(t) == RStrip(LStrip(t))

Min(S) == CHOOSE x \in S : \A y \in S : x <= y

RECURSIVE Sum(_, _)
Sum(f, S) == IF S = {} THEN 0 ELSE LET x == CHOOSE y \in S : TRUE IN f[x] + Sum(f, S \ {x})


(***************************************************************************)
(* Header location, load_trends_csv step 3 (src/app.py lines 47-70).       *)
(***************************************************************************)
ScanLimit == 100

header_keys == {"tempo", "giorno", "settimana", "week", "date", "month", "mese"}

\* The keys k with `k in low` for a lower-cased run of letters: the run is a
\* key itself, or a longer word with a key inside it ("updated" holds "date").
KeysIn(w) ==
    CASE w = "updated" -> {"date"}
      [] OTHER -> {w} \cap header_keys

\* "," in line or ";" in line or "\t" in line
HasDelimiter(line) == Len(line) >= 2

\* any(k in low for k in header_keys)
HasKeyword(line) ==
    \E j \in 1..Len(line) : \E i \in 1..Len(line[j]) : KeysIn(Lower(line[j][i])) # {}

\* re.compile(r"\d{4}-\d{2}-\d{2}") matching at position i of a field
DateReAt(f, i) ==
    /\ i + 9 <= Len(f)
    /\ \A j \in {0, 1, 2, 3, 5, 6, 8, 9} : f[i + j] \in Digit
    /\ f[i + 4] = "-"
    /\ f[i + 7] = "-"

\* date_re.search(line)
DateReSearch(line) ==
    \E j \in 1..Len(line) : \E i \in 1..Len(line[j]) : DateReAt(line[j], i)

IsKeywordHeaderOr(line) == HasDelimiter(line) \/ HasKeyword(line)

\* the condition of the first scan (line 56)
IsKeywordHeader(line) == HasDelimiter(line) /\ HasKeyword(line)

\* the condition of the fallback scan (line 65)
IsDateLine(line) == DateReSearch(line) /\ HasDelimiter(line)

\* lines[:100]
Scanned(lines) == SubSeq(lines, 1, IF Len(lines) < ScanLimit THEN Len(lines) ELSE ScanLimit)

\* indices (from 0, as enumerate gives them) the first loop would stop at
KeywordHits(lines) ==
    {i \in 0..(Len(Scanned(lines)) - 1) : IsKeywordHeader(lines[i + 1])}

DateHits(lines) ==
    {i \in 0..(Len(Scanned(lines)) - 1) : IsDateLine(lines[i + 1])}

FallbackIdxNoStepBack(i) == i

\* header_idx = max(0, i - 1)
FallbackIdx(i) == IF i - 1 > 0 THEN i - 1 ELSE 0

\* header_idx after both scans
HeaderIdx(lines) ==
    IF KeywordHits(lines) # {} THEN Min(KeywordHits(lines))
    ELSE IF DateHits(lines) # {} THEN FallbackIdx(Min(DateHits(lines)))
    ELSE 0

\* lines[header_idx:], the lines joined into csv_text
CsvLines(lines) == SubSeq(lines, HeaderIdx(lines) + 1, Len(lines))

(***************************************************************************)
(* Numbers: the text of a number, its value, and the text Python and       *)
(* pandas write for a value.                                               *)
(***************************************************************************)
RECURSIVE DigitsToInt(_)
DigitsToInt(ds) ==
    IF ds = <<>> THEN 0
    ELSE 10 * DigitsToInt(SubSeq(ds, 1, Len(ds) - 1)) + DigitVal(ds[Len(ds)])

RECURSIVE IntToDigits(_)
IntToDigits(n) ==
    IF n < 10 THEN <<DigitChar(n)>> ELSE Append(IntToDigits(n \div 10), DigitChar(n % 10))

RECURSIVE Pow10(_)
Pow10(n) == IF n = 0 THEN 1 ELSE 10 * Pow10(n - 1)

RECURSIVE Normalise(_)
Normalise(v) ==
    IF v[2] > 0 /\ v[1] % 10 = 0 THEN Normalise(<<v[1] \div 10, v[2] - 1>>) ELSE v

AllDigits(t) == \A i \in 1..Len(t) : t[i] \in Digit

Positions(t, a) == {i \in 1..Len(t) : t[i] = a}

\* digits with at most one decimal point and at least one digit: <<m, e>>, or <<>>
ParseDecimal(t) ==
    LET dots == Positions(t, ".") IN
    IF Cardinality(dots) > 1 THEN <<>>
    ELSE LET p == IF dots = {} THEN Len(t) + 1 ELSE Min(dots)
             int == SubSeq(t, 1, p - 1)
             frac == SubSeq(t, p + 1, Len(t))
         IN IF AllDigits(int) /\ AllDigits(frac) /\ Len(int) + Len(frac) >= 1
            THEN <<DigitsToInt(int \o frac), Len(frac)>>
            ELSE <<>>

\* an optionally signed run of digits: <<n>>, or <<>>
ParseExponent(t) ==
    LET neg == t # <<>> /\ t[1] = "-"
        ds == IF neg THEN Tail(t) ELSE t
    IN IF ds # <<>> /\ AllDigits(ds)
       THEN <<IF neg THEN 0 - DigitsToInt(ds) ELSE DigitsToInt(ds)>>
       ELSE <<>>

\* The value of a number text, [-]digits[.digits][e[-]digits], or <<>> when the
\* text is no number: what the CSV reader and pd.to_numeric accept.
ParseNumber(t) ==
    LET neg == t # <<>> /\ t[1] = "-"
        body == IF neg THEN Tail(t) ELSE t
        es == {i \in 1..Len(body) : Lower(body[i]) = "e"}
        p == IF es = {} THEN Len(body) + 1 ELSE Min(es)
        mant == ParseDecimal(SubSeq(body, 1, p - 1))
        ex == IF es = {} THEN <<0>> ELSE ParseExponent(SubSeq(body, p + 1, Len(body)))
    IN IF mant = <<>> \/ ex = <<>> THEN <<>>
       ELSE LET m == IF neg THEN 0 - mant[1] ELSE mant[1]
                e == mant[2] - ex[1]
            IN IF e >= 0 THEN Normalise(<<m, e>>) ELSE <<m * Pow10(0 - e), 0>>

\* the text holds a decimal point or an exponent: the reader makes it a float
IsFloatText(t) == \E i \in 1..Len(t) : t[i] = "." \/ Lower(t[i]) = "e"

Abs(n) == IF n < 0 THEN 0 - n ELSE n

Zeros(n) == [i \in 1..n |-> "0"]

\* repr() of a float64, which astype(str) and to_csv both write: scientific
\* notation when the decimal exponent is below -4, positional otherwise
\* (exponents of 16 and more, also scientific, lie outside the inputs).
FloatRepr(v) ==
    LET ds == IntToDigits(Abs(v[1]))
        n == Len(ds)
        sign == IF v[1] < 0 THEN <<"-">> ELSE <<>>
        sci == n - 1 - v[2]
    IN IF v[1] = 0 THEN <<"0", ".", "0">>
       ELSE IF sci < 0 - 4
       THEN sign \o <<ds[1]>> \o (IF n > 1 THEN <<".">> \o Tail(ds) ELSE <<>>)
            \o <<"e", "-">>
            \o (IF 0 - sci < 10 THEN <<"0">> ELSE <<>>) \o IntToDigits(0 - sci)
       ELSE IF v[2] = 0 THEN sign \o ds \o <<".", "0">>
       ELSE IF n > v[2]
       THEN sign \o SubSeq(ds, 1, n - v[2]) \o <<".">> \o SubSeq(ds, n - v[2] + 1, n)
       ELSE sign \o <<"0", ".">> \o Zeros(v[2] - n) \o ds

\* str() of an int64
IntRepr(v) == (IF v[1] < 0 THEN <<"-">> ELSE <<>>) \o IntToDigits(Abs(v[1]))


(***************************************************************************)
(* Dates: pd.to_datetime(..., errors="coerce", utc=True).dt.tz_localize(   *)
(* None) on the first column (line 103), at the resolution of a day.       *)
(***************************************************************************)
DaysInMonth(y, m) ==
    IF m \in {4, 6, 9, 11} THEN 30
    ELSE IF m = 2 THEN (IF y % 4 = 0 /\ (y % 100 # 0 \/ y % 400 = 0) THEN 29 ELSE 28)
    ELSE 31

ValidDate(y, m, d) == m >= 1 /\ m <= 12 /\ d >= 1 /\ d <= DaysInMonth(y, m)

Stamp(y, m, d) == <<y * 10000 + m * 100 + d>>

IsIsoText(t) == Len(t) = 10 /\ DateReAt(t, 1)

\* YYYY-MM-DD
ParseIso(t) ==
    IF ~IsIsoText(t) THEN <<>>
    ELSE LET y == DigitsToInt(SubSeq(t, 1, 4))
             m == DigitsToInt(SubSeq(t, 6, 7))
             d == DigitsToInt(SubSeq(t, 9, 10))
         IN IF ValidDate(y, m, d) THEN Stamp(y, m, d) ELSE <<>>

IsSlashText(t) ==
    /\ Len(t) = 10
    /\ \A j \in {1, 2, 4, 5, 7, 8, 9, 10} : t[j] \in Digit
    /\ t[3] = "/"
    /\ t[6] = "/"

\* NN/NN/YYYY read month first (%m/%d/%Y)
ParseMonthFirst(t) ==
    IF ~IsSlashText(t) THEN <<>>
    ELSE LET a == DigitsToInt(SubSeq(t, 1, 2))
             b == DigitsToInt(SubSeq(t, 4, 5))
             y == DigitsToInt(SubSeq(t, 7, 10))
         IN IF ValidDate(y, a, b) THEN Stamp(y, a, b) ELSE <<>>

\* NN/NN/YYYY read day first (%d/%m/%Y)
ParseDayFirst(t) ==
    IF ~IsSlashText(t) THEN <<>>
    ELSE LET a == DigitsToInt(SubSeq(t, 1, 2))
             b == DigitsToInt(SubSeq(t, 4, 5))
             y == DigitsToInt(SubSeq(t, 7, 10))
         IN IF ValidDate(y, b, a) THEN Stamp(y, b, a) ELSE <<>>

\* One string parsed on its own with dayfirst=False: an ambiguous date is read
\* month first, and a date whose first number cannot be a month is read day first.
ParseElement(t) ==
    IF ParseIso(t) # <<>> THEN ParseIso(t)
    ELSE IF ParseMonthFirst(t) # <<>> THEN ParseMonthFirst(t)
    ELSE ParseDayFirst(t)

\* The format guessed from one string with dayfirst=False.
GuessFormat(t) ==
    IF ParseIso(t) # <<>> THEN "iso"
    ELSE IF ParseMonthFirst(t) # <<>> THEN "mdy"
    ELSE IF ParseDayFirst(t) # <<>> THEN "dmy"
    ELSE "none"

ParseWith(fmt, t) ==
    CASE fmt = "iso" -> ParseIso(t)
      [] fmt = "mdy" -> ParseMonthFirst(t)
      [] fmt = "dmy" -> ParseDayFirst(t)
      [] OTHER -> ParseElement(t)

DateParsers == {"elementwise", "inferred"}

\* A column of strings (<<>> is a missing cell).  "elementwise": every string is
\* parsed on its own (pandas before 2.0).  "inferred": the format is guessed
\* from the first non-missing string and applied strictly to all (pandas 2),
\* with the element-wise parser when no format can be guessed.
ToDatetimeStrings(col, parser) ==
    LET some == {i \in 1..Len(col) : col[i] # <<>>}
        fmt == IF parser = "elementwise" \/ some = {} THEN "none"
               ELSE GuessFormat(col[Min(some)])
    IN [i \in 1..Len(col) |-> IF col[i] = <<>> THEN <<>> ELSE ParseWith(fmt, col[i])]

\* A numeric column counts nanoseconds from 1970-01-01: within a day of the
\* epoch for every number of the inputs.
ToDatetimeNumbers(col) ==
    [i \in 1..Len(col) |->
        IF col[i] = <<>> THEN <<>>
        ELSE IF ParseNumber(col[i])[1] < 0 THEN Stamp(1969, 12, 31) ELSE Stamp(1970, 1, 1)]

\* Timestamps that are parsed again (lines 252, 260) are kept as they are.
ToDatetimeStamps(col) == col

(***************************************************************************)
(* pd.read_csv(io.StringIO(csv_text), sep=None, engine="python") on lines  *)
(* whose rows are no wider than the header (lines 73-76).                  *)
(***************************************************************************)
IsBlankLine(line) == line = << <<>> >>

NonBlank(lines) == SelectSeq(lines, LAMBDA l : ~IsBlankLine(l))

\* Both attempts raise EmptyDataError when there is no line to take columns from.
ReadCsvRaises(lines) == NonBlank(lines) = <<>>

\* An empty label becomes "Unnamed: j"; a repeated label gets ".1", ".2", ...
ColumnLabels(header) ==
    LET named == [j \in 1..Len(header) |->
                    IF header[j] = <<>>
                    THEN <<"Unnamed", ":", " ">> \o IntToDigits(j - 1)
                    ELSE header[j]]
        before(j) == Cardinality({i \in 1..(j - 1) : named[i] = named[j]})
    IN [j \in 1..Len(header) |->
          IF before(j) = 0 THEN named[j]
          ELSE named[j] \o <<".">> \o IntToDigits(before(j))]

\* a short row is filled with missing cells
PadRow(row, w) == [j \in 1..w |-> IF j <= Len(row) THEN row[j] ELSE <<>>]

Column(rows, j) == [i \in 1..Len(rows) |-> rows[i][j]]

\* the dtype the reader gives a column of cell texts
InferDtype(cells) ==
    IF cells = <<>> THEN "object"
    ELSE IF \A i \in 1..Len(cells) : cells[i] = <<>> \/ ParseNumber(cells[i]) # <<>>
    THEN (IF \E i \in 1..Len(cells) : cells[i] = <<>> \/ IsFloatText(cells[i])
          THEN "float64" ELSE "int64")
    ELSE "object"

\* the frame read: labels, one dtype per column, rows of cell texts
ReadCsv(lines) ==
    LET nb == NonBlank(lines)
        w == Len(nb[1])
        rows == [i \in 1..(Len(nb) - 1) |-> PadRow(nb[i + 1], w)]
    IN [columns |-> ColumnLabels(nb[1]),
        dtypes |-> [j \in 1..w |-> InferDtype(Column(rows, j))],
        rows |-> rows]

\* df[c].astype(str) of one cell
AsTypeStr(cell, dtype) ==
    IF cell = <<>> THEN <<"nan">>
    ELSE IF dtype = "int64" THEN IntRepr(ParseNumber(cell))
    ELSE IF dtype = "float64" THEN FloatRepr(ParseNumber(cell))
    ELSE cell


(***************************************************************************)
(* load_trends_csv, steps 5 to 10 (lines 78-116).                          *)
(***************************************************************************)
DateName == <<"Date">>

\* pd.DataFrame()
EmptyFrame == [columns |-> <<>>, dtypes |-> <<>>, rows |-> <<>>]

\* df.rename(columns={first_col: "Date"})
Renamed(labels) == [j \in 1..Len(labels) |-> IF labels[j] = labels[1] THEN DateName ELSE labels[j]]

\* c.split(":")[0].strip(), or c.strip() when that is empty (lines 87-94)
CleanName(c) ==
    IF c = DateName THEN c
    ELSE LET cs == Positions(c, ":")
             base == Strip(IF cs = {} THEN c ELSE SubSeq(c, 1, Min(cs) - 1))
         IN IF base = <<>> THEN Strip(c) ELSE base

Cleaned(labels) == [j \in 1..Len(labels) |-> CleanName(Renamed(labels)[j])]

IsPartialNameExact(c) == c = <<"ispartial">>

\* c.strip().lower() == "ispartial" (line 98)
IsPartialName(c) == LowerText(Strip(c)) = <<"ispartial">>

\* positions of the columns left by df.drop(columns=drop_cols)
KeptColumns(names) == SelectSeq([j \in 1..Len(names) |-> j], LAMBDA j : ~IsPartialName(names[j]))

Occurrences(names, c) == Cardinality({i \in 1..Len(names) : names[i] = c})

\* df["Date"] is a frame, not a column, when two columns are named "Date":
\* pd.to_datetime then raises (line 103).
DateRaises(names) == Occurrences(names, DateName) > 1

CoerceNeverRaises(names) == FALSE

\* df[c] is a frame when two columns are named c: it has no .str (line 108).
CoerceRaises(names) == \E j \in 2..Len(names) : Occurrences(names, names[j]) > 1

\* line 103 on the first column
ToDatetime(cells, dtype, parser) ==
    IF dtype = "object" THEN ToDatetimeStrings(cells, parser) ELSE ToDatetimeNumbers(cells)

\* [^\d\.\-] leaves digits, points and minus signs
RegexKeeps(a) == a \in Digit \cup {".", "-"}

RegexStrip(t) == SelectSeq(t, RegexKeeps)

\* the text pd.to_numeric is given for one cell (line 108)
CoerceText(cell, dtype) == RegexStrip(AsTypeStr(cell, dtype))

\* pd.to_numeric(s, errors="coerce") of one cell (line 109)
Coerce(cell, dtype) == ParseNumber(CoerceText(cell, dtype))

\* the dtype pd.to_numeric gives the column
CoercedDtype(cells, dtype) ==
    IF \A i \in 1..Len(cells) :
          Coerce(cells[i], dtype) # <<>> /\ ~IsFloatText(CoerceText(cells[i], dtype))
    THEN "int64" ELSE "float64"

\* pd.api.types.is_numeric_dtype(df[c]) (line 112)
IsNumericDtype(dtype, values) == dtype \in {"int64", "float64"}

RECURSIVE InsertRow(_, _)
InsertRow(sorted, row) ==
    IF sorted = <<>> THEN <<row>>
    ELSE IF sorted[Len(sorted)][1][1] <= row[1][1] THEN Append(sorted, row)
    ELSE Append(InsertRow(SubSeq(sorted, 1, Len(sorted) - 1), row), sorted[Len(sorted)])

RECURSIVE SortRows(_)
\* sort_values("Date").reset_index(drop=True); rows of equal time keep their order
SortRows(rows) ==
    IF rows = <<>> THEN <<>>
    ELSE InsertRow(SortRows(SubSeq(rows, 1, Len(rows) - 1)), rows[Len(rows)])

\* steps 5 to 7 (lines 81-100): first column renamed, names cleaned, the
\* isPartial columns dropped
RenameAndDrop(raw) ==
    LET names == Cleaned(raw.columns)
        kept == KeptColumns(names)
    IN [columns |-> [j \in 1..Len(kept) |-> names[kept[j]]],
        dtypes |-> [j \in 1..Len(kept) |-> raw.dtypes[kept[j]]],
        rows |-> [i \in 1..Len(raw.rows) |-> [j \in 1..Len(kept) |-> raw.rows[i][kept[j]]]]]

\* step 8 (lines 103-104): the first column becomes timestamps, and the rows
\* whose time is null are dropped
ParseDates(d, parser) ==
    LET times == ToDatetime(Column(d.rows, 1), d.dtypes[1], parser)
        alive == SelectSeq([i \in 1..Len(d.rows) |-> i], LAMBDA i : times[i] # <<>>)
    IN [columns |-> d.columns,
        dtypes |-> d.dtypes,
        times |-> [i \in 1..Len(alive) |-> times[alive[i]]],
        rows |-> [i \in 1..Len(alive) |-> d.rows[alive[i]]]]

\* step 9 (lines 107-109): every other column coerced to numbers
CoerceNumeric(d) ==
    [columns |-> d.columns,
     dtypes |-> [j \in 1..Len(d.columns) |->
                   IF j = 1 THEN "datetime64" ELSE CoercedDtype(Column(d.rows, j), d.dtypes[j])],
     rows |-> [i \in 1..Len(d.rows) |->
                 [j \in 1..Len(d.columns) |->
                    IF j = 1 THEN d.times[i] ELSE Coerce(d.rows[i][j], d.dtypes[j])]]]

\* step 10 (lines 112-116): the numeric columns kept, the rows sorted by time
KeepNumeric(d) ==
    LET numeric_cols == SelectSeq([j \in 1..(Len(d.columns) - 1) |-> j + 1],
                                  LAMBDA j : IsNumericDtype(d.dtypes[j], Column(d.rows, j)))
        cols == <<1>> \o numeric_cols
    IN IF numeric_cols = <<>> THEN EmptyFrame
       ELSE [columns |-> [j \in 1..Len(cols) |-> d.columns[cols[j]]],
             dtypes |-> [j \in 1..Len(cols) |-> d.dtypes[cols[j]]],
             rows |-> SortRows([i \in 1..Len(d.rows) |->
                                  [j \in 1..Len(cols) |-> d.rows[i][cols[j]]]])]

\* Steps 5 to 10 on the frame read: [status, table].
Normalise_df(raw, parser) ==
    LET d == RenameAndDrop(raw)
    IN IF Len(raw.columns) = 0 THEN [status |-> "returned", table |-> EmptyFrame]
       ELSE IF DateRaises(d.columns) \/ CoerceRaises(d.columns)
       THEN [status |-> "raised", table |-> EmptyFrame]
       ELSE [status |-> "returned", table |-> KeepNumeric(CoerceNumeric(ParseDates(d, parser)))]

\* DataFrame.empty
IsEmptyFrame(t) == Len(t.columns) = 0 \/ Len(t.rows) = 0


(***************************************************************************)
(* DataFrame.to_csv(index=False) (lines 184, 397).                         *)
(***************************************************************************)
PadDigits(n, w) == Zeros(w - Len(IntToDigits(n))) \o IntToDigits(n)

\* a timestamp at midnight is written YYYY-MM-DD
FormatStamp(t) ==
    PadDigits(t[1] \div 10000, 4) \o <<"-">> \o PadDigits((t[1] \div 100) % 100, 2)
    \o <<"-">> \o PadDigits(t[1] % 100, 2)

FormatValue(v, dtype) ==
    IF v = <<>> THEN <<>>
    ELSE IF dtype = "datetime64" THEN FormatStamp(v)
    ELSE IF dtype = "int64" THEN IntRepr(v)
    ELSE FloatRepr(v)

\* the header line, then one line per row
ToCsv(t) ==
    <<t.columns>>
    \o [i \in 1..Len(t.rows) |->
          [j \in 1..Len(t.columns) |-> FormatValue(t.rows[i][j], t.dtypes[j])]]

(***************************************************************************)
(* The upload block (lines 246-261).                                       *)
(***************************************************************************)
\* lines 252-253 and 260-261: the Date column parsed again, null times dropped
DropNullTimes(rows) ==
    LET times == ToDatetimeStamps(Column(rows, 1))
        alive == SelectSeq([i \in 1..Len(rows) |-> i], LAMBDA i : times[i] # <<>>)
    IN [i \in 1..Len(alive) |-> rows[alive[i]]]

ColumnIndex(t, c) == CHOOSE j \in 1..Len(t.columns) : t.columns[j] = c

HasColumn(t, c) == \E j \in 1..Len(t.columns) : t.columns[j] = c

RECURSIVE UnionColumns(_)
\* the columns of the frames in order of first appearance
UnionColumns(dfs) ==
    IF dfs = <<>> THEN <<>>
    ELSE LET sofar == UnionColumns(SubSeq(dfs, 1, Len(dfs) - 1))
             last == dfs[Len(dfs)].columns
         IN sofar \o SelectSeq(last, LAMBDA c : \A i \in 1..Len(sofar) : sofar[i] # c)

CommonColumns(dfs) ==
    SelectSeq(dfs[1].columns, LAMBDA c : \A i \in 1..Len(dfs) : HasColumn(dfs[i], c))

\* the rows of one frame laid out on the given columns, null where it has none
Reindexed(t, cols) ==
    [i \in 1..Len(t.rows) |->
        [j \in 1..Len(cols) |->
            IF HasColumn(t, cols[j]) THEN t.rows[i][ColumnIndex(t, cols[j])] ELSE <<>>]]

RECURSIVE StackRows(_, _)
StackRows(dfs, cols) ==
    IF dfs = <<>> THEN <<>>
    ELSE StackRows(SubSeq(dfs, 1, Len(dfs) - 1), cols) \o Reindexed(dfs[Len(dfs)], cols)

ConcatDtype(dfs, c) ==
    IF c = DateName THEN "datetime64"
    ELSE IF \A i \in 1..Len(dfs) :
               HasColumn(dfs[i], c) /\ dfs[i].dtypes[ColumnIndex(dfs[i], c)] = "int64"
    THEN "int64" ELSE "float64"

ConcatOn(dfs, cols) ==
    [columns |-> cols,
     dtypes |-> [j \in 1..Len(cols) |-> ConcatDtype(dfs, cols[j])],
     rows |-> SortRows(DropNullTimes(StackRows(dfs, cols)))]

ConcatInner(dfs) == ConcatOn(dfs, CommonColumns(dfs))

\* pd.concat(all_dfs, ignore_index=True), then lines 260-261
Concat(dfs) == ConcatOn(dfs, UnionColumns(dfs))

NoTable == EmptyFrame

(***************************************************************************)
(* Streams.                                                                *)
(***************************************************************************)
Stream(data, pos, seekable) == [data |-> data, pos |-> pos, seekable |-> seekable]

\* file_like_or_path.read(): what lies between the position and the end
ReadAll(f) == SubSeq(f.data, f.pos + 1, Len(f.data))

\* the stream after read() and seek(0); a stream that cannot seek stays at its
\* end, the exception being passed over (lines 35-39)
AfterRead(f) == [f EXCEPT !.pos = IF f.seekable THEN 0 ELSE Len(f.data)]

(***************************************************************************)
(* The program.  One call of load_trends_csv is two steps in a row:        *)
(* LocateHeader (lines 30-70) and ParseTable (lines 72-116).               *)
(***************************************************************************)
\* lines 30-70: read the bytes, rewind, decode, find the header, slice
LocateHeader ==
    /\ pc = "load"
    /\ k < Len(uploaded_files)
    /\ LET f == uploaded_files[k + 1]
           lines == ReadAll(f)
       IN /\ uploaded_files' = [uploaded_files EXCEPT ![k + 1] = AfterRead(f)]
          /\ header_idx' = HeaderIdx(lines)
          /\ csv_text' = CsvLines(lines)
    /\ pc' = "parse"
    /\ UNCHANGED <<start_pos, dateparser, k, returned, all_dfs, df, exported>>

\* the table a call that found csv_text returns, or the exception it raises
ParseResult(text, parser) ==
    IF ReadCsvRaises(text) THEN [status |-> "raised", table |-> EmptyFrame]
    ELSE Normalise_df(ReadCsv(text), parser)

\* lines 250-254
AppendIfNotEmpty(dfs, t) ==
    IF ~IsEmptyFrame(t) THEN Append(dfs, [t EXCEPT !.rows = DropNullTimes(t.rows)]) ELSE dfs

\* lines 72-116, and the loop body that receives the table (lines 249-254);
\* an exception ends the script
ParseTable ==
    /\ pc = "parse"
    /\ LET res == ParseResult(csv_text, dateparser)
       IN /\ returned' = Append(returned, res)
          /\ IF res.status = "raised"
             THEN /\ pc' = "crashed"
                  /\ UNCHANGED <<k, all_dfs>>
             ELSE /\ k' = k + 1
                  /\ all_dfs' = AppendIfNotEmpty(all_dfs, res.table)
                  /\ pc' = IF k + 1 = Len(uploaded_files) THEN "concat" ELSE "load"
    /\ UNCHANGED <<uploaded_files, start_pos, dateparser, header_idx, csv_text, df, exported>>

\* lines 256-261
ConcatFiles ==
    /\ pc = "concat"
    /\ all_dfs # <<>>
    /\ df' = Concat(all_dfs)
    /\ pc' = "shown"
    /\ UNCHANGED <<uploaded_files, start_pos, dateparser, k, header_idx, csv_text,
                   returned, all_dfs, exported>>

\* line 256 with nothing collected: no table is shown
NothingUsable ==
    /\ pc = "concat"
    /\ all_dfs = <<>>
    /\ pc' = "idle"
    /\ UNCHANGED <<uploaded_files, start_pos, dateparser, k, header_idx, csv_text,
                   returned, all_dfs, df, exported>>

\* line 397 with the whole date range selected and no resampling: the shown
\* table written as CSV
ExportCsv ==
    /\ pc = "shown"
    /\ exported = <<>>
    /\ exported' = ToCsv(df)
    /\ pc' = "exported"
    /\ UNCHANGED <<uploaded_files, start_pos, dateparser, k, header_idx, csv_text,
                   returned, all_dfs, df>>

\* the exported file uploaded in place of the first one: the script runs again
UploadExported ==
    /\ pc = "exported"
    /\ uploaded_files' = <<Stream(exported, 0, TRUE)>>
    /\ start_pos' = <<0>>
    /\ k' = 0
    /\ all_dfs' = <<>>
    /\ df' = NoTable
    /\ pc' = "load"
    /\ UNCHANGED <<dateparser, header_idx, csv_text, returned, exported>>


(***************************************************************************)
(* Inputs.                                                                 *)
(***************************************************************************)
D0101 == <<"2", "0", "2", "4", "-", "0", "1", "-", "0", "1">>
D0108 == <<"2", "0", "2", "4", "-", "0", "1", "-", "0", "8">>
D0115 == <<"2", "0", "2", "4", "-", "0", "1", "-", "1", "5">>

\* 01/02/2024 reads as 2 January month first and as 1 February day first;
\* 13/01/2024 and 14/01/2024 only read day first
S0102 == <<"0", "1", "/", "0", "2", "/", "2", "0", "2", "4">>
S1301 == <<"1", "3", "/", "0", "1", "/", "2", "0", "2", "4">>
S1401 == <<"1", "4", "/", "0", "1", "/", "2", "0", "2", "4">>

TimeCells == {D0101, D0108, S0102, S1301, S1401, <<>>, <<"Total">>}

\* 45, 1.5, 0.00001%, <1, False and the empty cell
ValueCells == {<<"4", "5">>, <<"1", ".", "5">>, <<"0", ".", "0", "0", "0", "0", "1", "%">>, <<"<", "1">>, <<"False">>, <<>>}

\* Week, AI, "AI: (Italy)", ML, isPartial, " ISPARTIAL ", Date and the empty label
Labels == {<<"Week">>, <<"AI">>, <<"AI", ":", " ", "(", "Italy", ")">>, <<"ML">>, <<"isPartial">>, <<" ", "ISPARTIAL", " ">>,
           <<"Date">>, <<>>}

\* Category: All
BannerCategory == <<<<"Category", ":", " ", "All">>>>
\* Country: IT<delimiter>EU
BannerCountry == <<<<"Country", ":", " ", "IT">>, <<"EU">>>>
\* Settimana
BannerWeek == <<<<"Settimana">>>>
\* Updated<delimiter>2024-01-01
BannerUpdated == <<<<"Updated">>, <<"2", "0", "2", "4", "-", "0", "1", "-", "0", "1">>>>
\* Period: 2024-01-01<delimiter>2024-01-08
BannerPeriod == <<<<"Period", ":", " ", "2", "0", "2", "4", "-", "0", "1", "-", "0", "1">>, <<"2", "0", "2", "4", "-", "0", "1", "-", "0", "8">>>>

HeaderWeek == <<<<"Week">>, <<"AI">>>>
HeaderTime == <<<<"Time">>, <<"AI">>>>
DataRow == <<D0101, <<"4", "5">>>>
BlankLine == << <<>> >>

LineKinds == {BannerCategory, BannerCountry, BannerUpdated, BannerPeriod,
              HeaderWeek, HeaderTime, DataRow}

FillKinds == {BannerCountry, BannerWeek}

\* paddings that put the free lines at the start of the input and around the
\* end of the scanned lines
Pads == {0, ScanLimit - 1, ScanLimit}

SeqsUpTo(S, n) == UNION {[1..m -> S] : m \in 0..n}

SeqsFromTo(S, lo, hi) == UNION {[1..m -> S] : m \in lo..hi}

\* header-location inputs: a run of equal banner lines, then free lines
HeaderInputs ==
    {[i \in 1..pad |-> fill] \o tail :
        pad \in {0}, fill \in {BannerCategory}, tail \in SeqsUpTo(LineKinds, MaxTail)}
    \cup
    {[i \in 1..pad |-> fill] \o tail :
        pad \in Pads \ {0}, fill \in FillKinds, tail \in SeqsUpTo(LineKinds, MaxTail)}

Preambles == {<<>>, <<BannerCategory, BannerCountry>>}

\* tables with free labels and one row of numbers
LabelInputs ==
    {pre \o <<labels, [j \in 1..Len(labels) |-> IF j = 1 THEN D0101 ELSE <<DigitChar(j)>>]>> :
        pre \in Preambles, labels \in SeqsFromTo(Labels, 1, MaxCols)}

\* 2024-01-22, 2024-01-15, 2024-01-08, ...: the rows come latest first
RowDate(i) == <<"2", "0", "2", "4", "-", "0", "1", "-">> \o PadDigits(29 - 7 * i, 2)

NoteCells == {<<"False">>, <<"4", "5">>}

\* tables Week, AI, Note with free cells, the dates descending
CellInputs ==
    {pre \o <<<<<<"Week">>, <<"AI">>, <<"Note">>>>>>
         \o [i \in 1..Len(cells) |-> <<RowDate(i), cells[i][1], cells[i][2]>>] :
        pre \in Preambles, cells \in SeqsUpTo(ValueCells \X NoteCells, MaxRows)}

\* tables Week, AI with free time cells
TimeInputs ==
    {<<HeaderWeek>> \o [i \in 1..Len(times) |-> <<times[i], <<DigitChar(i)>>>>] :
        times \in SeqsUpTo(TimeCells, MaxTimeRows)}

\* inputs with no table in them
BareInputs == SeqsUpTo({BlankLine, BannerCategory}, 2)

FileAI == <<BannerCategory, <<<<"Week">>, <<"AI", ":", " ", "(", "Italy", ")">>, <<"isPartial">>>>, <<D0115, <<"5", "0">>, <<"False">>>>, <<D0101, <<"4", "5">>, <<"True">>>>>>
FileML == <<<<<<"Time">>, <<"ML">>>>, <<D0108, <<"7">>>>>>
FileBoth == <<<<<<"Week">>, <<"ML">>, <<"AI">>>>, <<D0108, <<"1", ".", "5">>, <<>>>>, <<D0108, <<"9">>, <<"3">>>>>>
FileHeaderOnly == <<<<<<"Week">>, <<"Other">>>>>>
FileNoTimes == <<HeaderWeek, <<<<"Total">>, <<"4", "5">>>>>>
FileClash == <<<<<<"Week">>, <<"AI", ":", " ", "(", "Italy", ")">>, <<"AI">>>>, <<D0101, <<"1">>, <<"2">>>>>>

UploadInputs == {FileAI, FileML, FileBoth, FileHeaderOnly, FileNoTimes, FileClash, <<>>}

PositionInputs == {FileAI, FileML, FileBoth, <<BannerCategory, BannerCountry>> \o FileBoth}


(***************************************************************************)
(* Specifications.                                                         *)
(***************************************************************************)
Start(files) ==
    /\ uploaded_files = files
    /\ start_pos = [i \in 1..Len(files) |-> files[i].pos]
    /\ k = 0
    /\ header_idx = 0
    /\ csv_text = <<>>
    /\ returned = <<>>
    /\ all_dfs = <<>>
    /\ df = NoTable
    /\ exported = <<>>
    /\ pc = "load"

\* one file, read from its start or, for a few files, from any position
Init ==
    /\ dateparser \in DateParsers
    /\ \/ \E lines \in LabelInputs \cup CellInputs \cup TimeInputs \cup BareInputs :
             Start(<<Stream(lines, 0, TRUE)>>)
       \/ \E lines \in PositionInputs : \E pos \in 0..Len(lines) : \E seekable \in BOOLEAN :
             Start(<<Stream(lines, pos, seekable)>>)

Next == LocateHeader \/ ParseTable \/ ConcatFiles \/ NothingUsable

Spec == Init /\ [][Next]_vars

\* header location alone, on inputs of any shape (it does not read dateparser)
InitHeader ==
    /\ dateparser = "inferred"
    /\ \E lines \in HeaderInputs : Start(<<Stream(lines, 0, TRUE)>>)

NextHeader == LocateHeader

SpecHeader == InitHeader /\ [][NextHeader]_vars

\* several files uploaded together
InitUpload ==
    /\ dateparser \in DateParsers
    /\ \E files \in SeqsFromTo(UploadInputs, 1, MaxFiles) :
          Start([i \in 1..Len(files) |-> Stream(files[i], 0, TRUE)])

SpecUpload == InitUpload /\ [][Next]_vars

\* one file, its table exported and the export uploaded again
InitRoundTrip ==
    /\ dateparser \in DateParsers
    /\ \E lines \in CellInputs \cup TimeInputs : Start(<<Stream(lines, 0, TRUE)>>)

NextRoundTrip == Next \/ ExportCsv \/ UploadExported

SpecRoundTrip == InitRoundTrip /\ [][NextRoundTrip]_vars


(***************************************************************************)
(* Properties.                                                             *)
(***************************************************************************)
\* the lines the i-th call read: its stream from the starting position on
Input(i) == SubSeq(uploaded_files[i].data, start_pos[i] + 1, Len(uploaded_files[i].data))

\* the i-th stream has been read by load_trends_csv
HasBeenRead(i) == i <= k \/ (i = k + 1 /\ pc \in {"parse", "crashed"})

NormalName(c) == LowerText(Strip(c))

SeriesColumns(t) == 2..Len(t.columns)

\* C1 (as claimed, for the empty input it names): on an input with no line to
\* take a header from, load_trends_csv does not raise and returns an empty
\* table.
C1_EmptyInputGivesEmptyTable ==
    \A i \in 1..Len(returned) :
        NonBlank(Input(i)) = <<>> =>
            returned[i].status = "returned" /\ IsEmptyFrame(returned[i].table)

\* C2 (as claimed, for tables that have rows): every series column of a
\* returned table holds at least one parsed number, a column with no parseable
\* cell never appearing.
C2_ColumnSurvival ==
    \A i \in 1..Len(returned) :
        ~IsEmptyFrame(returned[i].table) =>
            \A j \in SeriesColumns(returned[i].table) :
                \E r \in 1..Len(returned[i].table.rows) : returned[i].table.rows[r][j] # <<>>

\* a line holding a delimiter and a time keyword
KeywordedLine(line) == Len(line) >= 2 /\ HasKeyword(line)

\* a valid data row: an ISO date, a delimiter, values
IsDataRow(line) == Len(line) >= 2 /\ ParseIso(line[1]) # <<>>

\* n banner lines, then a keyworded header, then valid data rows and nothing else
BannersHeaderData(lines, n) ==
    /\ n + 2 <= Len(lines)
    /\ KeywordedLine(lines[n + 1])
    /\ ~IsDataRow(lines[n + 1])
    /\ \A i \in (n + 2)..Len(lines) : IsDataRow(lines[i])

ScannedIndices(lines) == 0..((IF Len(lines) < ScanLimit THEN Len(lines) ELSE ScanLimit) - 1)

NoKeywordedLine(lines) == \A i \in ScannedIndices(lines) : ~KeywordedLine(lines[i + 1])

\* indices of the scanned lines that hold a YYYY-MM-DD pattern and a delimiter
DatedLines(lines) ==
    {i \in ScannedIndices(lines) : Len(lines[i + 1]) >= 2 /\ DateReSearch(lines[i + 1])}

\* C4 (as claimed): with no keyworded line, the offset is the index of the
\* line before the first dated line, which is kept as the first data row; with
\* no dated line either, the offset is 0.
C4_LineBeforeFirstDate ==
    (pc = "parse" /\ NoKeywordedLine(Input(1))) =>
        IF DatedLines(Input(1)) # {}
        THEN /\ Min(DatedLines(Input(1))) >= 1
             /\ header_idx = Min(DatedLines(Input(1))) - 1
             /\ csv_text[2] = Input(1)[Min(DatedLines(Input(1))) + 1]
        ELSE header_idx = 0

\* C4 (amended): the offset is the index of the line before the first dated
\* line when that line is not the first line of the input, and 0 when it is
\* the first line, which is then the header row itself; with no dated line
\* the offset is 0.
C4_LineBeforeFirstDateOrZero ==
    (pc = "parse" /\ NoKeywordedLine(Input(1))) =>
        IF DatedLines(Input(1)) # {}
        THEN LET d == Min(DatedLines(Input(1)))
             IN IF d >= 1
                THEN header_idx = d - 1 /\ csv_text[2] = Input(1)[d + 1]
                ELSE header_idx = 0 /\ csv_text[1] = Input(1)[1]
        ELSE header_idx = 0 /\ csv_text = Input(1)

\* C4 witness: no keyworded line, the first dated line is not the first line,
\* and the header is the line before it.
C4_Witness ==
    /\ pc = "parse"
    /\ NoKeywordedLine(Input(1))
    /\ DatedLines(Input(1)) # {}
    /\ Min(DatedLines(Input(1))) >= 2
    /\ header_idx = Min(DatedLines(Input(1))) - 1
    /\ IsDataRow(csv_text[2])

C6_PositionRestored ==
    \A i \in 1..Len(uploaded_files) :
        (HasBeenRead(i) /\ uploaded_files[i].seekable) =>
            uploaded_files[i].pos = start_pos[i]

UsableTables ==
    LET usable == SelectSeq(returned, LAMBDA r : r.status = "returned" /\ ~IsEmptyFrame(r.table))
    IN [i \in 1..Len(usable) |-> usable[i].table]

\* row r of table t laid out on the columns of the combined table
OnCombinedColumns(t, r) ==
    [j \in 1..Len(df.columns) |->
        IF \E c \in 1..Len(t.columns) : t.columns[c] = df.columns[j]
        THEN t.rows[r][CHOOSE c \in 1..Len(t.columns) : t.columns[c] = df.columns[j]]
        ELSE <<>>]

\* how many rows equal to x the tables contribute
Contributed(x) ==
    LET n == [i \in 1..Len(UsableTables) |->
                Cardinality({r \in 1..Len(UsableTables[i].rows) :
                                OnCombinedColumns(UsableTables[i], r) = x})]
    IN Sum(n, 1..Len(UsableTables))

\* C8: the combined table holds exactly the rows of the non-empty tables, each
\* laid out on the union of their columns with nulls for the series its file
\* lacks, no time null, sorted by time.
C8_Combined ==
    pc = "shown" =>
        /\ Len(df.rows) = Sum([i \in 1..Len(UsableTables) |-> Len(UsableTables[i].rows)],
                              1..Len(UsableTables))
        /\ {df.columns[j] : j \in 1..Len(df.columns)}
             = UNION {{UsableTables[i].columns[j] : j \in 1..Len(UsableTables[i].columns)} :
                        i \in 1..Len(UsableTables)}
        /\ \A a, b \in 1..Len(df.columns) : a # b => df.columns[a] # df.columns[b]
        /\ \A r \in 1..Len(df.rows) :
              /\ df.rows[r][1] # <<>>
              /\ Cardinality({q \in 1..Len(df.rows) : df.rows[q] = df.rows[r]})
                   = Contributed(df.rows[r])
        /\ \A r \in 1..(Len(df.rows) - 1) : df.rows[r][1][1] <= df.rows[r + 1][1][1]

\* C8 witness: two files with different series were combined, the later rows
\* coming from the first file.
C8_Witness ==
    /\ pc = "shown"
    /\ Len(UsableTables) = 2
    /\ UsableTables[1].columns # UsableTables[2].columns
    /\ UsableTables[1].rows[1][1][1] > UsableTables[2].rows[1][1][1]
    /\ \E r \in 1..Len(df.rows) : \E j \in 2..Len(df.columns) : df.rows[r][j] = <<>>

\* C9 (as claimed): the export of a non-empty table, loaded again, gives the
\* same table.
C9_RoundTrip ==
    (Len(returned) >= 2 /\ ~IsEmptyFrame(returned[1].table)) => returned[2] = returned[1]

\* the time cells of the table that was read, one per data row
SourceTimes == [i \in 1..(Len(NonBlank(csv_text)) - 1) |-> NonBlank(csv_text)[i + 1][1]]

StrictMonthFirst(t) == IF ParseIso(t) # <<>> THEN ParseIso(t) ELSE ParseMonthFirst(t)

StrictDayFirst(t) == IF ParseIso(t) # <<>> THEN ParseIso(t) ELSE ParseDayFirst(t)

\* the times the claimed procedure keeps: month first, and day first instead
\* when more than half of the values fail month first
ClaimedTimes(cells) ==
    LET failed == Cardinality({i \in 1..Len(cells) : StrictMonthFirst(cells[i]) = <<>>})
        parsed == [i \in 1..Len(cells) |->
                      IF 2 * failed > Len(cells) THEN StrictDayFirst(cells[i])
                      ELSE StrictMonthFirst(cells[i])]
    IN SelectSeq(parsed, LAMBDA t : t # <<>>)

\* C10 (as claimed): the times of a returned table are those the month-first
\* parse keeps, or those the day-first parse keeps when more than half of the
\* values fail month first.
C10_DayFirstRetry ==
    (Len(returned) = 1 /\ returned[1].status = "returned" /\ returned[1].table # EmptyFrame) =>
        Column(returned[1].table.rows, 1)
          = Column(SortRows([i \in 1..Len(ClaimedTimes(SourceTimes)) |->
                                <<ClaimedTimes(SourceTimes)[i]>>]), 1)

=============================================================================
